---- MODULE Spec2Model ----
(***************************************************************************)
(* Secure Media Vault backend: the GraphQL resolvers of                    *)
(* src/graphql/resolvers.ts over the three tables asset, upload_ticket and *)
(* asset_share and the private storage bucket.                             *)
(*                                                                         *)
(* Every resolver is an async function.  Between two awaits nothing else   *)
(* runs, at an await any other request may run: each action below is one   *)
(* resolver from one await to the next (the store call together with the   *)
(* synchronous checks that follow it).  The requests in flight are the     *)
(* bag reqs; a request's fields are the resolver's arguments and locals,   *)
(* and, once it is over (pc = "done"), its response.                       *)
(*                                                                         *)
(* Store calls on rows that exist succeed, except in createUploadUrl whose *)
(* three external calls may each fail (its error branches are kept).       *)
(* Columns no resolver ever reads back into a decision (filename, mime,    *)
(* size, nonce, created_at, updated_at) are left out of the rows; the     *)
(* listing myAssets takes filename and created_at as functions of the id.  *)
(***************************************************************************)
EXTENDS Integers, FiniteSets, Sequences, Bags, TLC

\* ------------------------------------------------------------ bounds
MaxAssets == 1
MaxReq == 2
MaxVersion == 3
MaxSkew == 1
MaxRows == 22

\* ------------------------------------------------------------ constants
\* ticket lifetime: 5 * 60 * 1000 ms; the model's clock counts minutes
TicketTTL == 5
\* the instants at which the model looks at the clock: the start, the minute
\* at which a ticket issued at the start expires, and the minutes after it
Instants == {0} \cup (TicketTTL..(TicketTTL + MaxSkew))
\* 30 * 1024 * 1024
MAX_SIZE_BYTES == 31457280
\* myAssets: the page size when first is absent or out of range, and the
\* largest first that is taken as given
DEFAULT_PAGE_SIZE == 20
MAX_PAGE_SIZE == 50

Users == {"u1", "u2"}
\* the users who upload; the others are callers and share targets only
Uploaders == {"u1"}
NoUser == "null"
Callers == Users \cup {NoUser}

AssetIds == 1..MaxAssets
Versions == 1..MaxVersion

\* object contents a client may upload, and the hashes a client may claim
Contents == {"b1", "b2"}
NoObject == "absent"
ClientHashes == {"h1", "h2"}

\* crypto.createHash("sha256").update(buffer).digest("hex")
Sha256(bytes) ==
  CASE bytes = "b1" -> "h1"
    [] bytes = "b2" -> "h2"
    [] OTHER -> "h0"

\* a MIME type is a sequence of tokens, so that startsWith is a prefix test
Mimes == { <<"image/", "png">>, <<"video/", "mp4">>, <<"application/pdf">>,
           <<"application/pdf", "x">>, <<"text/", "plain">> }
Sizes == {0, 1, MAX_SIZE_BYTES, MAX_SIZE_BYTES + 1}

ALLOWED_MIME_PREFIXES == { <<"image/">>, <<"video/">>, <<"application/pdf">> }

StartsWith(m, p) == Len(p) <= Len(m) /\ SubSeq(m, 1, Len(p)) = p

isMimeAllowed(mime) ==
  \/ mime = <<"application/pdf">>
  \/ \E p \in ALLOWED_MIME_PREFIXES : StartsWith(mime, p)

SizeOk(size) == ~(size <= 0 \/ size > MAX_SIZE_BYTES)

\* ------------------------------------------------------------ directory
Emails == {"A@x.io", "b@x.io", "c@x.io"}

\* String.prototype.toLowerCase on the addresses in use
toLowerCase(e) ==
  CASE e = "A@x.io" -> "a@x.io"
    [] e = "B@x.io" -> "b@x.io"
    [] OTHER -> e

\* auth.users: the address each user registered with
UserEmail(u) == IF u = "u1" THEN "a@x.io" ELSE "B@x.io"

findUserIdByEmail(email) ==
  IF \E u \in Users : toLowerCase(UserEmail(u)) = toLowerCase(email)
  THEN CHOOSE u \in Users : toLowerCase(UserEmail(u)) = toLowerCase(email)
  ELSE NoUser

\* ------------------------------------------------------------ rows
NoRow == [id |-> 0, owner_id |-> NoUser, status |-> "none", sha256 |-> "null", version |-> 0]
NoTicket == [asset_id |-> 0, user_id |-> NoUser, expires_at |-> 0, used |-> FALSE]

\* the row createUploadUrl inserts into asset
NewAsset(id, userId) ==
  [id |-> id, owner_id |-> userId, status |-> "uploading", sha256 |-> "null", version |-> 1]

\* the row createUploadUrl inserts into upload_ticket
NewTicket(id, userId, expiresAt) ==
  [asset_id |-> id, user_id |-> userId, expires_at |-> expiresAt, used |-> FALSE]

BlankReq ==
  [op |-> "none", pc |-> "start", caller |-> NoUser, assetId |-> 0, version |-> 0,
   clientSha256 |-> "null", canDownload |-> FALSE,
   expiresAt |-> 0, asset |-> NoRow, toUserId |-> NoUser, serverHash |-> "null",
   updated |-> NoRow, code |-> "none", ret |-> NoRow,
   edges |-> <<>>, endCursor |-> 0, hasNextPage |-> FALSE]

VARIABLES asset, ticket, shares, storage, signed, nextId, now, reqs

vars == <<asset, ticket, shares, storage, signed, nextId, now, reqs>>
db == <<asset, ticket, shares>>

Init ==
  /\ asset = [a \in AssetIds |-> NoRow]
  /\ ticket = [a \in AssetIds |-> NoTicket]
  /\ shares = {}
  /\ storage = [a \in AssetIds |-> NoObject]
  /\ signed = [a \in AssetIds |-> FALSE]
  /\ nextId = 1
  /\ now = 0
  /\ reqs = EmptyBag

\* the resolver throws: the response carries the error's extensions.code
Throw(r, code) == [BlankReq EXCEPT !.op = r.op, !.pc = "done", !.code = code]

\* the resolver returns ret; the version the caller sent stays with the response
Result(r, ret) ==
  [BlankReq EXCEPT !.op = r.op, !.pc = "done", !.version = r.version,
                  !.code = "OK", !.ret = ret]

\* a request is accepted while fewer than MaxReq are in flight
Room == BagCardinality(reqs) < MaxReq

InFlight == BagToSet(reqs)

\* no response is waiting to leave: a resolver's return or throw ends the
\* request at once, so the server takes no other step before the response is out
Quiet == \A r \in InFlight : r.pc # "done"

\* a request arrives
Arrive(r) == reqs' = reqs (+) SetToBag({r})

\* the request r goes on as r2
Becomes(r, r2) == reqs' = (reqs (-) SetToBag({r})) (+) SetToBag({r2})

Exists(a) == a \in AssetIds /\ asset[a] # NoRow

\* ------------------------------------------------------------ environment
\* wall-clock time passes
Tick ==
  /\ \E t \in Instants : t > now
  /\ now' = CHOOSE t \in Instants : t > now /\ \A u \in Instants : u > now => t <= u
  /\ UNCHANGED <<asset, ticket, shares, storage, signed, nextId, reqs>>

\* the client PUTs bytes to the signed upload URL; the URL is issued without
\* the upsert option, so a path that already holds an object is not overwritten
Upload(a, bytes) ==
  /\ signed[a]
  /\ storage[a] = NoObject
  /\ storage' = [storage EXCEPT ![a] = bytes]
  /\ UNCHANGED <<asset, ticket, shares, signed, nextId, now, reqs>>

\* the response leaves the server and the request is over
Return(r) ==
  /\ r \in InFlight
  /\ r.pc = "done"
  /\ reqs' = reqs (-) SetToBag({r})
  /\ UNCHANGED <<asset, ticket, shares, storage, signed, nextId, now>>

\* ------------------------------------------------------------ createUploadUrl
\* checks that validate the arguments before they look at the caller
CreateChecksValidationFirst(caller, mime, size) ==
  IF ~isMimeAllowed(mime) THEN "BAD_REQUEST"
  ELSE IF ~SizeOk(size) THEN "BAD_REQUEST"
  ELSE IF caller = NoUser THEN "UNAUTHENTICATED"
  ELSE "OK"

\* the checks of createUploadUrl in the code's order; "OK" when all pass
CreateChecks(caller, mime, size) ==
  IF caller = NoUser THEN "UNAUTHENTICATED"
  ELSE IF ~isMimeAllowed(mime) THEN "BAD_REQUEST"
  ELSE IF ~SizeOk(size) THEN "BAD_REQUEST"
  ELSE "OK"

\* auth, MIME and size checks, then the insert into asset
CreateUploadUrl_InsertAsset(caller, mime, size, ok) ==
  /\ Room
  /\ LET r == [BlankReq EXCEPT !.op = "createUploadUrl", !.caller = caller]
         c == CreateChecks(caller, mime, size) IN
     IF c # "OK" THEN
       /\ Arrive(Throw(r, c))
       /\ UNCHANGED <<asset, nextId>>
     ELSE IF ~ok THEN
       /\ Arrive(Throw(r, "BAD_REQUEST"))
       /\ UNCHANGED <<asset, nextId>>
     ELSE
       /\ nextId <= MaxAssets
       /\ asset' = [asset EXCEPT ![nextId] = NewAsset(nextId, caller)]
       /\ nextId' = nextId + 1
       /\ Arrive([r EXCEPT !.pc = "c_ticket", !.assetId = nextId,
                           !.expiresAt = now + TicketTTL])
  /\ UNCHANGED <<ticket, shares, storage, signed, now>>

\* an insert into upload_ticket whose failure takes the asset row back
CreateUploadUrl_InsertTicketRollback(r, ok) ==
  /\ r \in InFlight
  /\ r.pc = "c_ticket"
  /\ IF ~ok THEN
       /\ Becomes(r, Throw(r, "BAD_REQUEST"))
       /\ asset' = [asset EXCEPT ![r.assetId] = NoRow]
       /\ UNCHANGED ticket
     ELSE
       /\ ticket' = [ticket EXCEPT ![r.assetId] = NewTicket(r.assetId, r.caller, r.expiresAt)]
       /\ Becomes(r, [r EXCEPT !.pc = "c_sign", !.expiresAt = 0])
       /\ UNCHANGED asset
  /\ UNCHANGED <<shares, storage, signed, nextId, now>>

\* the insert into upload_ticket
CreateUploadUrl_InsertTicket(r, ok) ==
  /\ r \in InFlight
  /\ r.pc = "c_ticket"
  /\ IF ~ok THEN
       /\ Becomes(r, Throw(r, "BAD_REQUEST"))
       /\ UNCHANGED ticket
     ELSE
       /\ ticket' = [ticket EXCEPT ![r.assetId] = NewTicket(r.assetId, r.caller, r.expiresAt)]
       /\ Becomes(r, [r EXCEPT !.pc = "c_sign", !.expiresAt = 0])
  /\ UNCHANGED <<asset, shares, storage, signed, nextId, now>>

\* storage.createSignedUploadUrl, then the return
CreateUploadUrl_Sign(r, ok) ==
  /\ r \in InFlight
  /\ r.pc = "c_sign"
  /\ IF ~ok THEN
       /\ Becomes(r, Throw(r, "BAD_REQUEST"))
       /\ UNCHANGED signed
     ELSE
       /\ signed' = [signed EXCEPT ![r.assetId] = TRUE]
       /\ Becomes(r, Result(r, [NoRow EXCEPT !.id = r.assetId]))
  /\ UNCHANGED <<asset, ticket, shares, storage, nextId, now>>

\* ------------------------------------------------------------ shared checks
\* the object every resolver returns for an asset row (owner_id is not in it)
AssetView(row) == [row EXCEPT !.owner_id = NoUser]

\* a version check that only rejects versions ahead of the stored one
VersionNotAhead(row, version) == row.version >= version

\* asset.version !== version is the conflict
VersionMatches(row, version) == row.version = version

\* the checks with the version compared before the owner
LoadChecksVersionFirst(caller, a, version) ==
  IF caller = NoUser THEN "UNAUTHENTICATED"
  ELSE IF ~Exists(a) THEN "NOT_FOUND"
  ELSE IF ~VersionMatches(asset[a], version) THEN "VERSION_CONFLICT"
  ELSE IF asset[a].owner_id # caller THEN "FORBIDDEN"
  ELSE "OK"

\* the checks every mutation makes after it has loaded the asset, in the
\* code's order; "OK" when all pass
LoadChecks(caller, a, version) ==
  IF caller = NoUser THEN "UNAUTHENTICATED"
  ELSE IF ~Exists(a) THEN "NOT_FOUND"
  ELSE IF asset[a].owner_id # caller THEN "FORBIDDEN"
  ELSE IF ~VersionMatches(asset[a], version) THEN "VERSION_CONFLICT"
  ELSE "OK"

\* ------------------------------------------------------------ finalizeUpload
\* an expiry check that already rejects at the instant of expiry
ExpiredAtInstant(t, clock) == t.expires_at <= clock

\* new Date(ticket.expires_at) < new Date()
Expired(t, clock) == t.expires_at < clock

\* the hash the server computes over the downloaded bytes
ServerHash(bytes) == Sha256(bytes)

\* a comparison the wrong way round
FinalStatusInverted(serverHash, clientSha256) ==
  IF serverHash # clientSha256 THEN "ready" ELSE "corrupt"

\* a status that does not look at the claimed hash
FinalStatusUnverified(serverHash, clientSha256) == "ready"

\* const status = serverHash === clientSha256 ? "ready" : "corrupt"
FinalStatus(serverHash, clientSha256) ==
  IF serverHash = clientSha256 THEN "ready" ELSE "corrupt"

\* a failed download that leaves the row as it is
CorruptRowUntouched(row) == row

\* update({ status: "corrupt" }) after a failed download
CorruptRow(row) == [row EXCEPT !.status = "corrupt"]

\* an update that leaves the computed hash out
FinalizedRowNoHash(row, serverHash, status, version) ==
  [row EXCEPT !.status = status, !.version = version + 1]

\* update({ sha256: serverHash, status, version: version + 1 })
FinalizedRow(row, serverHash, status, version) ==
  [row EXCEPT !.sha256 = serverHash, !.status = status, !.version = version + 1]

\* update({ used: true })
UsedTicket(t) == [t EXCEPT !.used = TRUE]

\* a finalizeUpload call with its arguments
FinalizeReq(caller, a, clientSha256, version) ==
  [BlankReq EXCEPT !.op = "finalizeUpload", !.caller = caller, !.assetId = a,
                   !.version = version, !.clientSha256 = clientSha256]

\* auth check, select of the asset, owner and version checks: the request
\* as it stands at the next await, or its error
FinalizeFirst(caller, a, clientSha256, version) ==
  LET r == FinalizeReq(caller, a, clientSha256, version)
      c == LoadChecks(caller, a, version) IN
  IF c # "OK" THEN Throw(r, c)
  ELSE [r EXCEPT !.pc = "f_ticket", !.asset = asset[a]]

Finalize_LoadAsset(caller, a, clientSha256, version) ==
  /\ Room
  /\ LoadChecks(caller, a, version) = "OK" => version < MaxVersion
  /\ Arrive(FinalizeFirst(caller, a, clientSha256, version))
  /\ UNCHANGED <<asset, ticket, shares, storage, signed, nextId, now>>

\* ticket checks that look at the expiry before the used flag
AfterTicketExpiryFirst(r, t, clock) ==
  IF t = NoTicket THEN Throw(r, "NOT_FOUND")
  ELSE IF t.user_id # r.caller THEN Throw(r, "FORBIDDEN")
  ELSE IF Expired(t, clock) THEN Throw(r, "BAD_REQUEST")
  ELSE IF t.used THEN Result(r, AssetView(r.asset))
  ELSE [r EXCEPT !.pc = "f_download", !.asset = NoRow]

\* the checks on the selected ticket t in the code's order: not found, not the
\* caller's, the used-ticket return of the asset read at the start, expiry
AfterTicket(r, t, clock) ==
  IF t = NoTicket THEN Throw(r, "NOT_FOUND")
  ELSE IF t.user_id # r.caller THEN Throw(r, "FORBIDDEN")
  ELSE IF t.used THEN Result(r, AssetView(r.asset))
  ELSE IF Expired(t, clock) THEN Throw(r, "BAD_REQUEST")
  ELSE [r EXCEPT !.pc = "f_download", !.asset = NoRow]

\* select of the ticket, its checks, the used-ticket return and the expiry check
Finalize_LoadTicket(r) ==
  /\ r \in InFlight
  /\ r.pc = "f_ticket"
  /\ Becomes(r, AfterTicket(r, ticket[r.assetId], now))
  /\ UNCHANGED <<asset, ticket, shares, storage, signed, nextId, now>>

\* storage.download of the ticket's path and the hash of the bytes
Finalize_Download(r) ==
  /\ r \in InFlight
  /\ r.pc = "f_download"
  /\ Becomes(r,
       IF storage[r.assetId] = NoObject THEN [r EXCEPT !.pc = "f_corrupt"]
       ELSE [r EXCEPT !.pc = "f_update", !.serverHash = ServerHash(storage[r.assetId])])
  /\ UNCHANGED <<asset, ticket, shares, storage, signed, nextId, now>>

\* download failed: the status update, then INTEGRITY_ERROR
Finalize_MarkCorrupt(r) ==
  /\ r \in InFlight
  /\ r.pc = "f_corrupt"
  /\ asset' = IF Exists(r.assetId)
              THEN [asset EXCEPT ![r.assetId] = CorruptRow(asset[r.assetId])]
              ELSE asset
  /\ Becomes(r, Throw(r, "INTEGRITY_ERROR"))
  /\ UNCHANGED <<ticket, shares, storage, signed, nextId, now>>

\* the update of the asset row; no row updated is updateErr
Finalize_UpdateAsset(r) ==
  /\ r \in InFlight
  /\ r.pc = "f_update"
  /\ LET status == FinalStatus(r.serverHash, r.clientSha256) IN
     IF Exists(r.assetId) THEN
       LET updated == FinalizedRow(asset[r.assetId], r.serverHash, status, r.version) IN
       /\ asset' = [asset EXCEPT ![r.assetId] = updated]
       /\ Becomes(r, [r EXCEPT !.pc = "f_used", !.updated = updated])
     ELSE
       /\ Becomes(r, Throw(r, "BAD_REQUEST"))
       /\ UNCHANGED asset
  /\ UNCHANGED <<ticket, shares, storage, signed, nextId, now>>

\* the update of the ticket, then the throw on a mismatch or the return
Finalize_MarkUsed(r) ==
  /\ r \in InFlight
  /\ r.pc = "f_used"
  /\ ticket' = IF ticket[r.assetId] # NoTicket
               THEN [ticket EXCEPT ![r.assetId] = UsedTicket(ticket[r.assetId])]
               ELSE ticket
  /\ Becomes(r,
       IF FinalStatus(r.serverHash, r.clientSha256) # "ready"
       THEN Throw(r, "INTEGRITY_ERROR")
       ELSE Result(r, AssetView(r.updated)))
  /\ UNCHANGED <<asset, shares, storage, signed, nextId, now>>

\* ------------------------------------------------------------ shareAsset
\* an insert that does not resolve the conflict on (asset_id, to_user)
UpsertAppend(rows, row) == rows \cup {row}

\* upsert(..., { onConflict: "asset_id,to_user" })
Upsert(rows, row) ==
  {x \in rows : ~(x.asset_id = row.asset_id /\ x.to_user = row.to_user)} \cup {row}

\* of the row a share or a revoke has read, only the version is used again
Read(row) == [NoRow EXCEPT !.version = row.version]

\* an increment of the stored version instead of the version read
BumpedRowStored(row, read) == [row EXCEPT !.version = row.version + 1]

\* update({ version: asset.version + 1 }), asset being the row read at the start
BumpedRow(row, read) == [row EXCEPT !.version = read.version + 1]

\* a shareAsset call with its arguments (toEmail is used at once)
ShareReq(caller, a, canDownload, version) ==
  [BlankReq EXCEPT !.op = "shareAsset", !.caller = caller, !.assetId = a,
                   !.version = version, !.canDownload = canDownload]

\* a first step that treats the caller's own address like any other
ShareFirstNoSelfCheck(caller, a, toEmail, canDownload, version) ==
  LET r == ShareReq(caller, a, canDownload, version)
      c == LoadChecks(caller, a, version)
      toUserId == findUserIdByEmail(toEmail) IN
  IF c # "OK" THEN Throw(r, c)
  ELSE IF toUserId = NoUser THEN Throw(r, "NOT_FOUND")
  ELSE [r EXCEPT !.pc = "s_upsert", !.asset = Read(asset[a]), !.toUserId = toUserId]

\* auth check, select of the asset, owner and version checks; then
\* findUserIdByEmail, the not-found throw and the self-share return (the
\* directory never changes, so the lookup is taken together with the select)
ShareFirst(caller, a, toEmail, canDownload, version) ==
  LET r == ShareReq(caller, a, canDownload, version)
      c == LoadChecks(caller, a, version)
      toUserId == findUserIdByEmail(toEmail) IN
  IF c # "OK" THEN Throw(r, c)
  ELSE IF toUserId = NoUser THEN Throw(r, "NOT_FOUND")
  ELSE IF toUserId = caller THEN Result(r, AssetView(asset[a]))
  ELSE [r EXCEPT !.pc = "s_upsert", !.asset = Read(asset[a]), !.toUserId = toUserId]

Share_LoadAsset(caller, a, toEmail, canDownload, version) ==
  /\ Room
  /\ ShareFirst(caller, a, toEmail, canDownload, version).pc # "done"
       => version < MaxVersion
  /\ Arrive(ShareFirst(caller, a, toEmail, canDownload, version))
  /\ UNCHANGED <<asset, ticket, shares, storage, signed, nextId, now>>

Share_Upsert(r) ==
  /\ r \in InFlight
  /\ r.pc = "s_upsert"
  /\ shares' = Upsert(shares, [asset_id |-> r.assetId, to_user |-> r.toUserId,
                               can_download |-> r.canDownload])
  /\ Becomes(r, [r EXCEPT !.pc = "s_bump", !.toUserId = NoUser, !.canDownload = FALSE])
  /\ UNCHANGED <<asset, ticket, storage, signed, nextId, now>>

\* the version bump; no row updated is updErr
Share_Bump(r) ==
  /\ r \in InFlight
  /\ r.pc = "s_bump"
  /\ IF Exists(r.assetId) THEN
       LET updated == BumpedRow(asset[r.assetId], r.asset) IN
       /\ asset' = [asset EXCEPT ![r.assetId] = updated]
       /\ Becomes(r, Result(r, AssetView(updated)))
     ELSE
       /\ Becomes(r, Throw(r, "BAD_REQUEST"))
       /\ UNCHANGED asset
  /\ UNCHANGED <<ticket, shares, storage, signed, nextId, now>>

\* ------------------------------------------------------------ revokeShare
\* a revokeShare call with its arguments (toEmail is used at once)
RevokeReq(caller, a, version) ==
  [BlankReq EXCEPT !.op = "revokeShare", !.caller = caller, !.assetId = a,
                   !.version = version]

\* a first step that refuses an address no user has
RevokeFirstStrict(caller, a, toEmail, version) ==
  LET r == RevokeReq(caller, a, version)
      c == LoadChecks(caller, a, version)
      toUserId == findUserIdByEmail(toEmail) IN
  IF c # "OK" THEN Throw(r, c)
  ELSE IF toUserId = NoUser THEN Throw(r, "NOT_FOUND")
  ELSE [r EXCEPT !.pc = "r_delete", !.asset = Read(asset[a]), !.toUserId = toUserId]

\* auth check, select of the asset, owner and version checks; then
\* findUserIdByEmail: an unknown address skips the delete
RevokeFirst(caller, a, toEmail, version) ==
  LET r == RevokeReq(caller, a, version)
      c == LoadChecks(caller, a, version)
      toUserId == findUserIdByEmail(toEmail) IN
  IF c # "OK" THEN Throw(r, c)
  ELSE IF toUserId = NoUser THEN [r EXCEPT !.pc = "r_bump", !.asset = Read(asset[a])]
  ELSE [r EXCEPT !.pc = "r_delete", !.asset = Read(asset[a]), !.toUserId = toUserId]

Revoke_LoadAsset(caller, a, toEmail, version) ==
  /\ Room
  /\ LoadChecks(caller, a, version) = "OK" => version < MaxVersion
  /\ Arrive(RevokeFirst(caller, a, toEmail, version))
  /\ UNCHANGED <<asset, ticket, shares, storage, signed, nextId, now>>

Revoke_Delete(r) ==
  /\ r \in InFlight
  /\ r.pc = "r_delete"
  /\ shares' = {x \in shares : ~(x.asset_id = r.assetId /\ x.to_user = r.toUserId)}
  /\ Becomes(r, [r EXCEPT !.pc = "r_bump", !.toUserId = NoUser])
  /\ UNCHANGED <<asset, ticket, storage, signed, nextId, now>>

Revoke_Bump(r) ==
  /\ r \in InFlight
  /\ r.pc = "r_bump"
  /\ IF Exists(r.assetId) THEN
       LET updated == BumpedRow(asset[r.assetId], r.asset) IN
       /\ asset' = [asset EXCEPT ![r.assetId] = updated]
       /\ Becomes(r, Result(r, AssetView(updated)))
     ELSE
       /\ Becomes(r, Throw(r, "BAD_REQUEST"))
       /\ UNCHANGED asset
  /\ UNCHANGED <<ticket, shares, storage, signed, nextId, now>>

\* ------------------------------------------------------------ deleteAsset
\* a deleteAsset call with its arguments
DeleteReq(caller, a, version) ==
  [BlankReq EXCEPT !.op = "deleteAsset", !.caller = caller, !.assetId = a,
                   !.version = version]

\* auth check, select of the asset, owner and version checks
DeleteFirst(caller, a, version) ==
  LET r == DeleteReq(caller, a, version)
      c == LoadChecks(caller, a, version) IN
  IF c # "OK" THEN Throw(r, c) ELSE [r EXCEPT !.pc = "d_delete"]

Delete_LoadAsset(caller, a, version) ==
  /\ Room
  /\ Arrive(DeleteFirst(caller, a, version))
  /\ UNCHANGED <<asset, ticket, shares, storage, signed, nextId, now>>

\* delete().eq("id", assetId): the asset row only, and no error when it is gone
Delete_Delete(r) ==
  /\ r \in InFlight
  /\ r.pc = "d_delete"
  /\ asset' = [asset EXCEPT ![r.assetId] = NoRow]
  /\ Becomes(r, Result(r, NoRow))
  /\ UNCHANGED <<ticket, shares, storage, signed, nextId, now>>

\* ------------------------------------------------------------ getDownloadUrl
\* a getDownloadUrl call with its argument
DownloadReq(caller, a) ==
  [BlankReq EXCEPT !.op = "getDownloadUrl", !.caller = caller, !.assetId = a]

\* the checks of getDownloadUrl, which takes no version
DownloadChecks(caller, a) ==
  IF caller = NoUser THEN "UNAUTHENTICATED"
  ELSE IF ~Exists(a) THEN "NOT_FOUND"
  ELSE IF asset[a].owner_id # caller THEN "FORBIDDEN"
  ELSE "OK"

\* auth check, select of the asset and owner check
GetDownloadUrlFirst(caller, a) ==
  LET r == DownloadReq(caller, a)
      c == DownloadChecks(caller, a) IN
  IF c # "OK" THEN Throw(r, c) ELSE [r EXCEPT !.pc = "g_sign"]

GetDownloadUrl_LoadAsset(caller, a) ==
  /\ Room
  /\ Arrive(GetDownloadUrlFirst(caller, a))
  /\ UNCHANGED <<asset, ticket, shares, storage, signed, nextId, now>>

\* storage.createSignedUrl(asset.storage_path, 120), which may fail; the
\* response is the signed URL of the asset's path
GetDownloadUrl_Sign(r, ok) ==
  /\ r \in InFlight
  /\ r.pc = "g_sign"
  /\ Becomes(r, IF ok THEN Result(r, [NoRow EXCEPT !.id = r.assetId])
                 ELSE Throw(r, "BAD_REQUEST"))
  /\ UNCHANGED <<asset, ticket, shares, storage, signed, nextId, now>>

\* ------------------------------------------------------------ myAssets
\* strings that are searched are sequences of characters
Filename(id) == IF id % 2 = 1 THEN <<"C", "a", "t">> ELSE <<"d", "o", "g">>

\* the q arguments in use: absent or empty, blank, and three patterns
Queries == { <<>>, <<" ">>, <<"c", "a">>, <<" ", "A", "T", " ">>, <<"x">> }

Lower(c) ==
  CASE c = "A" -> "a"
    [] c = "C" -> "c"
    [] c = "T" -> "t"
    [] OTHER -> c

LowerAll(s) == [i \in 1..Len(s) |-> Lower(s[i])]

RECURSIVE TrimLeft(_)
TrimLeft(s) == IF s # <<>> /\ Head(s) = " " THEN TrimLeft(Tail(s)) ELSE s

RECURSIVE TrimRight(_)
TrimRight(s) ==
  IF s # <<>> /\ s[Len(s)] = " " THEN TrimRight(SubSeq(s, 1, Len(s) - 1)) ELSE s

\* String.prototype.trim
Trim(s) == TrimRight(TrimLeft(s))

\* ilike("filename", `%${pattern}%`) for a pattern without wildcards
ILike(name, pattern) ==
  \E i \in 0..(Len(name) - Len(pattern)) :
    SubSeq(LowerAll(name), i + 1, i + Len(pattern)) = LowerAll(pattern)

\* created_at is set by the store when the row is inserted; rows are numbered
\* in the order of their insertion
CreatedAt(id) == id

\* first is 0 when the argument is absent (null and 0 are both falsy)
Limit(first) ==
  IF first # 0 /\ first > 0 /\ first <= MAX_PAGE_SIZE THEN first ELSE DEFAULT_PAGE_SIZE

\* the rows the query selects; after is 0 when the argument is absent (the
\* service-role client sees every row)
Matching(after, q) ==
  {id \in DOMAIN asset :
     /\ asset[id] # NoRow
     /\ after # 0 => CreatedAt(id) < after
     /\ Len(Trim(q)) # 0 => ILike(Filename(id), Trim(q))}

\* order("created_at", { ascending: false })
RECURSIVE OrderDesc(_)
OrderDesc(S) ==
  IF S = {} THEN <<>>
  ELSE LET m == CHOOSE x \in S : \A y \in S : CreatedAt(y) <= CreatedAt(x) IN
       <<m>> \o OrderDesc(S \ {m})

\* limit(n)
Take(s, n) == SubSeq(s, 1, IF n < Len(s) THEN n ELSE Len(s))

\* a myAssets call with its caller (the arguments are used at once)
MyAssetsReq(caller) == [BlankReq EXCEPT !.op = "myAssets", !.caller = caller]

\* the whole resolver: auth check, the query with limit + 1, the slice and
\* the page info; an edge is the id of its row, a cursor is a created_at
MyAssetsFirst(caller, after, first, q) ==
  LET r == MyAssetsReq(caller)
      limit == Limit(first)
      data == Take(OrderDesc(Matching(after, q)), limit + 1)
      hasNextPage == Len(data) > limit
      slice == IF hasNextPage THEN SubSeq(data, 1, limit) ELSE data
      endCursor == IF Len(slice) # 0 THEN CreatedAt(slice[Len(slice)]) ELSE 0 IN
  IF caller = NoUser THEN Throw(r, "UNAUTHENTICATED")
  ELSE [Result(r, NoRow) EXCEPT !.edges = slice, !.endCursor = endCursor,
                                !.hasNextPage = hasNextPage]

MyAssets(caller, after, first, q) ==
  /\ Room
  /\ Arrive(MyAssetsFirst(caller, after, first, q))
  /\ UNCHANGED <<asset, ticket, shares, storage, signed, nextId, now>>

\* ------------------------------------------------------------ specification
Next ==
  \/ \E r \in InFlight : Return(r)
  \/ /\ Quiet
     /\ \/ Tick
        \/ \E a \in AssetIds, bytes \in Contents : Upload(a, bytes)
        \/ Room /\ \E caller \in Uploaders \cup {NoUser}, mime \in Mimes, size \in Sizes,
                       ok \in BOOLEAN :
                     CreateUploadUrl_InsertAsset(caller, mime, size, ok)
        \/ \E r \in InFlight, ok \in BOOLEAN : CreateUploadUrl_InsertTicket(r, ok)
        \/ \E r \in InFlight, ok \in BOOLEAN : CreateUploadUrl_Sign(r, ok)
        \/ Room /\ \E caller \in Callers, a \in AssetIds, h \in ClientHashes, v \in Versions :
                     Finalize_LoadAsset(caller, a, h, v)
        \/ \E r \in InFlight : Finalize_LoadTicket(r)
        \/ \E r \in InFlight : Finalize_Download(r)
        \/ \E r \in InFlight : Finalize_MarkCorrupt(r)
        \/ \E r \in InFlight : Finalize_UpdateAsset(r)
        \/ \E r \in InFlight : Finalize_MarkUsed(r)
        \/ Room /\ \E caller \in Callers, a \in AssetIds, e \in Emails, d \in BOOLEAN,
                       v \in Versions :
                     Share_LoadAsset(caller, a, e, d, v)
        \/ \E r \in InFlight : Share_Upsert(r)
        \/ \E r \in InFlight : Share_Bump(r)
        \/ Room /\ \E caller \in Callers, a \in AssetIds, e \in Emails, v \in Versions :
                     Revoke_LoadAsset(caller, a, e, v)
        \/ \E r \in InFlight : Revoke_Delete(r)
        \/ \E r \in InFlight : Revoke_Bump(r)
        \/ Room /\ \E caller \in Callers, a \in AssetIds, v \in Versions :
                     Delete_LoadAsset(caller, a, v)
        \/ \E r \in InFlight : Delete_Delete(r)
        \/ Room /\ \E caller \in Callers, a \in AssetIds : GetDownloadUrl_LoadAsset(caller, a)
        \/ \E r \in InFlight, ok \in BOOLEAN : GetDownloadUrl_Sign(r, ok)
        \/ Room /\ \E caller \in Callers, after \in 0..(MaxAssets + 1),
                       first \in {0, 1, MAX_PAGE_SIZE + 1}, q \in {<<>>, <<"c", "a">>} :
                     MyAssets(caller, after, first, q)

Spec == Init /\ [][Next]_vars

\* ------------------------------------------------------------ myAssets alone
\* the listing over tables of up to MaxRows rows: the table is fixed at the
\* start and the only calls are myAssets calls
Cursors == 0..(MaxRows + 1)
Firsts == {-1, 0, 1, 2, DEFAULT_PAGE_SIZE, DEFAULT_PAGE_SIZE + 1,
           MAX_PAGE_SIZE, MAX_PAGE_SIZE + 1}

InitPage ==
  /\ \E n \in 0..MaxRows :
       asset = [id \in 1..MaxRows |-> IF id <= n THEN NewAsset(id, "u1") ELSE NoRow]
  /\ ticket = [a \in AssetIds |-> NoTicket]
  /\ shares = {}
  /\ storage = [a \in AssetIds |-> NoObject]
  /\ signed = [a \in AssetIds |-> FALSE]
  /\ nextId = MaxRows + 1
  /\ now = 0
  /\ reqs = EmptyBag

NextPage ==
  \/ \E r \in InFlight : Return(r)
  \/ Quiet /\ Room /\ \E caller \in Callers, after \in Cursors, first \in Firsts,
                         q \in Queries :
                       MyAssets(caller, after, first, q)

SpecPage == InitPage /\ [][NextPage]_vars

\* ------------------------------------------------------------ properties
Owner(a) == asset[a].owner_id

\* this step has taken the request r further (or has ended it)
Moved(r) == CopiesIn(r, reqs') < CopiesIn(r, reqs)

\* this step has put r into the bag
Added(r) == CopiesIn(r, reqs') > CopiesIn(r, reqs)

\* a response that this step has added to the bag
NewResponse(r) == r.pc = "done" /\ Added(r)

\* a finalizeUpload that verified the object and wrote the asset row
Verified(r) ==
  /\ r.op = "finalizeUpload" /\ r.pc = "done" /\ r.code = "OK"
  /\ r.ret.version = r.version + 1

\* C1: after a finalizeUpload(assetId, clientSha256, version) has succeeded, a
\* second call by the owner with the same three arguments is not rejected: it
\* passes the asset checks (and then returns on the used ticket).
C1_FinalizeSameArguments ==
  \A r1 \in InFlight : \A a \in AssetIds :
    (Verified(r1) /\ r1.ret.id = a /\ Exists(a))
    => FinalizeFirst(Owner(a), a, r1.ret.sha256, r1.version).pc = "f_ticket"

\* C2: a finalizeUpload, shareAsset, revokeShare or deleteAsset call by the
\* owner of an existing asset with a version other than the stored one fails
\* with VERSION_CONFLICT, and the step that answers VERSION_CONFLICT leaves the
\* asset, ticket and share rows as they were.
C2_VersionConflict ==
  /\ [](\A a \in AssetIds, v \in Versions :
          (Exists(a) /\ v # asset[a].version) =>
            /\ \A h \in ClientHashes :
                 FinalizeFirst(Owner(a), a, h, v)
                   = Throw(FinalizeReq(Owner(a), a, h, v), "VERSION_CONFLICT")
            /\ \A e \in Emails, d \in BOOLEAN :
                 ShareFirst(Owner(a), a, e, d, v)
                   = Throw(ShareReq(Owner(a), a, d, v), "VERSION_CONFLICT")
            /\ \A e \in Emails :
                 RevokeFirst(Owner(a), a, e, v)
                   = Throw(RevokeReq(Owner(a), a, v), "VERSION_CONFLICT")
            /\ DeleteFirst(Owner(a), a, v)
                   = Throw(DeleteReq(Owner(a), a, v), "VERSION_CONFLICT"))
  /\ [][\A r \in BagToSet(reqs') :
          (r.code = "VERSION_CONFLICT" /\ Added(r)) => UNCHANGED <<db, storage>>]_vars

\* a stale call has been refused while the asset has moved on and is shared
C2_Witness ==
  \E r \in InFlight, a \in AssetIds :
    /\ r.pc = "done" /\ r.code = "VERSION_CONFLICT" /\ r.op = "deleteAsset"
    /\ Exists(a) /\ asset[a].version = 2 /\ shares # {}
    /\ ticket[a] # NoTicket

\* C3: a finalizeUpload by the owner with the current version on an unused,
\* unexpired ticket whose object can be downloaded gets as far as the hash
\* comparison; its write to the asset row stores the hash of the object, status
\* ready when the claimed hash equals it and corrupt when not, and the version
\* the call was made with plus 1; it then marks the ticket used and returns the
\* ready asset, or fails with INTEGRITY_ERROR on a mismatch.
C3_IntegrityOutcome ==
  /\ [](\A a \in AssetIds, h \in ClientHashes :
          Exists(a) => FinalizeFirst(Owner(a), a, h, asset[a].version).pc = "f_ticket")
  /\ [][\A r \in InFlight :
          LET a == r.assetId
              match == Sha256(storage[a]) = r.clientSha256 IN
          /\ ( /\ r.pc = "f_ticket" /\ Moved(r) /\ ticket[a].user_id = r.caller
               /\ ~ticket[a].used /\ now <= ticket[a].expires_at )
             => Becomes(r, [r EXCEPT !.pc = "f_download", !.asset = NoRow])
          /\ (r.pc = "f_download" /\ Moved(r) /\ storage[a] # NoObject)
             => \E r2 \in BagToSet(reqs') : r2.pc = "f_update" /\ Becomes(r, r2)
          /\ (r.pc = "f_update" /\ Moved(r) /\ Exists(a))
             => /\ asset'[a].status = IF match THEN "ready" ELSE "corrupt"
                /\ asset'[a].sha256 = Sha256(storage[a])
                /\ asset'[a].version = r.version + 1
                /\ asset'[a].owner_id = asset[a].owner_id
          /\ (r.pc = "f_used" /\ Moved(r))
             => /\ ticket'[a].used
                /\ \E r2 \in BagToSet(reqs') :
                     /\ NewResponse(r2)
                     /\ IF match
                        THEN /\ r2.code = "OK" /\ r2.ret.status = "ready"
                             /\ r2.ret.sha256 = r.clientSha256
                             /\ r2.ret.version = r.version + 1
                        ELSE r2.code = "INTEGRITY_ERROR"]_vars

\* a mismatching finalizeUpload is over: INTEGRITY_ERROR, the asset corrupt at
\* version 2 with the server's hash, the ticket used
C3_Witness ==
  \E r \in InFlight, a \in AssetIds :
    /\ r.op = "finalizeUpload" /\ r.pc = "done" /\ r.code = "INTEGRITY_ERROR"
    /\ Exists(a) /\ asset[a].status = "corrupt" /\ asset[a].version = 2
    /\ asset[a].sha256 = Sha256(storage[a]) /\ ticket[a].used

\* C4: every asset with status ready has a sha256, and it is the hash of the
\* object stored at the asset's path.
C4_ReadyHashMatchesObject ==
  \A a \in AssetIds :
    (Exists(a) /\ asset[a].status = "ready") =>
      /\ asset[a].sha256 # "null"
      /\ storage[a] # NoObject
      /\ asset[a].sha256 = Sha256(storage[a])

\* a ready asset whose object is the second content, after a share
C4_Witness ==
  \E a \in AssetIds :
    /\ Exists(a) /\ asset[a].status = "ready" /\ storage[a] = "b2"
    /\ asset[a].version = 3

\* C5: every step that changes an asset row adds exactly 1 to its version.
C5_EveryWriteBumpsVersion ==
  [][\A a \in AssetIds :
       (Exists(a) /\ asset'[a] # NoRow /\ asset'[a] # asset[a])
       => asset'[a].version = asset[a].version + 1]_vars

\* C6: the version of an asset is at least 1 and no step lowers it.
C6_VersionMonotonic ==
  [][\A a \in AssetIds :
       (Exists(a) /\ asset'[a] # NoRow)
       => (asset'[a].version >= asset[a].version /\ asset[a].version >= 1)]_vars

\* C7 as claimed: a ticket's used flag is never reset, and the step that sets
\* it ends a finalizeUpload that succeeds.
C7_UsedSetBySuccess ==
  [][\A a \in AssetIds :
       /\ ticket[a].used => ticket'[a].used
       /\ (ticket[a] # NoTicket /\ ~ticket[a].used /\ ticket'[a].used)
          => \E r \in BagToSet(reqs') :
               NewResponse(r) /\ r.op = "finalizeUpload" /\ r.code = "OK"]_vars

\* C7 as amended: a ticket's used flag is never reset, and the step that sets
\* it ends a finalizeUpload that compared the hashes: it returns the ready
\* asset when the claimed hash is the hash of the stored object and fails with
\* INTEGRITY_ERROR when it is not; no call that fails otherwise sets the flag.
C7_UsedSetByVerification ==
  [][\A a \in AssetIds :
       /\ ticket[a].used => ticket'[a].used
       /\ (ticket[a] # NoTicket /\ ~ticket[a].used /\ ticket'[a].used)
          => \E r \in InFlight, r2 \in BagToSet(reqs') :
               /\ r.op = "finalizeUpload" /\ r.assetId = a /\ Becomes(r, r2)
               /\ NewResponse(r2) /\ r2.op = "finalizeUpload"
               /\ IF r.clientSha256 = Sha256(storage[a])
                  THEN r2.code = "OK" /\ r2.ret.status = "ready"
                  ELSE r2.code = "INTEGRITY_ERROR"]_vars

\* a used ticket next to the INTEGRITY_ERROR of the call that used it
C7_Witness ==
  \E r \in InFlight, a \in AssetIds :
    /\ r.op = "finalizeUpload" /\ r.pc = "done" /\ r.code = "INTEGRITY_ERROR"
    /\ ticket[a].used /\ asset[a].status = "corrupt" /\ asset[a].sha256 # "null"
    /\ now <= ticket[a].expires_at

\* C8: an asset starts in status uploading, and once its status is ready or
\* corrupt no step changes the status again.
C8_StatusChangesOnce ==
  [][\A a \in AssetIds :
       /\ (~Exists(a) /\ asset'[a] # NoRow) => asset'[a].status = "uploading"
       /\ (Exists(a) /\ asset'[a] # NoRow /\ asset[a].status # "uploading")
          => asset'[a].status = asset[a].status]_vars

\* C9: no write is conditional on the stored version: the write of a
\* finalizeUpload, shareAsset or revokeShare that has passed the version check
\* is carried out on the row as it is now, is not refused with
\* VERSION_CONFLICT, and stores the version the request read plus 1; the
\* delete of a deleteAsset that has passed the check removes the row.
C9_WriteAfterCheckUnconditional ==
  [][\A r \in InFlight :
       LET a == r.assetId IN
       /\ (r.pc \in {"f_update", "s_bump", "r_bump"} /\ Moved(r) /\ Exists(a))
          => /\ asset'[a].version = r.version + 1
             /\ \A r2 \in BagToSet(reqs') : NewResponse(r2) => r2.code = "OK"
       /\ (r.pc = "d_delete" /\ Moved(r))
          => /\ asset'[a] = NoRow
             /\ \E r2 \in BagToSet(reqs') : NewResponse(r2) /\ r2.code = "OK"]_vars

\* two mutations have been accepted and have written while the stored version
\* has advanced by 1 only: a finalizeUpload that read version 1 has returned
\* the ready asset at version 2, the share row of a shareAsset is in place,
\* nothing else is in flight and the stored version is 2
C9_Witness ==
  \E r \in InFlight, a \in AssetIds :
    /\ r.op = "finalizeUpload" /\ r.pc = "done" /\ r.code = "OK"
    /\ r.ret.id = a /\ r.version = 1 /\ r.ret.version = 2
    /\ BagCardinality(reqs) = 1
    /\ \E s \in shares : s.asset_id = a
    /\ Exists(a) /\ asset[a].version = 2 /\ asset[a].status = "ready"

\* C10: a finalizeUpload that has passed the asset checks and finds its ticket
\* unused fails with BAD_REQUEST when expiresAt is earlier than the current
\* time, leaving ticket and asset rows as they are; at or before expiresAt it
\* is not rejected and goes on to the download.
C10_ExpiredTicket ==
  [][\A r \in InFlight :
       LET t == ticket[r.assetId] IN
       (r.pc = "f_ticket" /\ Moved(r) /\ t # NoTicket /\ t.user_id = r.caller /\ ~t.used)
       => IF t.expires_at < now
          THEN Becomes(r, Throw(r, "BAD_REQUEST")) /\ UNCHANGED db
          ELSE \E r2 \in BagToSet(reqs') : r2.pc = "f_download" /\ Becomes(r, r2)]_vars

\* an expired finalizeUpload is over: BAD_REQUEST, the ticket unused, the asset
\* still uploading at version 1
C10_Witness ==
  \E r \in InFlight, a \in AssetIds :
    /\ r.op = "finalizeUpload" /\ r.pc = "done" /\ r.code = "BAD_REQUEST"
    /\ Exists(a) /\ asset[a].status = "uploading" /\ asset[a].version = 1
    /\ asset[a].sha256 = "null"
    /\ ticket[a] # NoTicket /\ ~ticket[a].used /\ ticket[a].expires_at < now
    /\ storage[a] # NoObject

\* C11: a finalizeUpload by the owner with the current version passes the asset
\* checks; on an unused, unexpired ticket it goes on to the download; when the
\* object cannot be downloaded its next step sets the status of the asset row
\* to corrupt (leaving sha256, version, the ticket and the shares as they are)
\* and the call fails with INTEGRITY_ERROR.
C11_DownloadFailure ==
  /\ [](\A a \in AssetIds, h \in ClientHashes :
          Exists(a) => FinalizeFirst(Owner(a), a, h, asset[a].version).pc = "f_ticket")
  /\ [][\A r \in InFlight :
          LET a == r.assetId IN
          /\ ( /\ r.pc = "f_ticket" /\ Moved(r) /\ ticket[a].user_id = r.caller
               /\ ~ticket[a].used /\ now <= ticket[a].expires_at )
             => \E r2 \in BagToSet(reqs') : r2.pc = "f_download" /\ Becomes(r, r2)
          /\ (r.pc = "f_download" /\ Moved(r) /\ storage[a] = NoObject)
             => Becomes(r, [r EXCEPT !.pc = "f_corrupt"]) /\ UNCHANGED db
          /\ (r.pc = "f_corrupt" /\ Moved(r))
             => /\ Exists(a) => asset'[a] = [asset[a] EXCEPT !.status = "corrupt"]
                /\ Becomes(r, Throw(r, "INTEGRITY_ERROR"))
                /\ UNCHANGED <<ticket, shares, storage>>]_vars

\* a finalizeUpload made before any upload is over: INTEGRITY_ERROR, the asset
\* corrupt without a hash, the ticket still unused and no object stored
C11_Witness ==
  \E r \in InFlight, a \in AssetIds :
    /\ r.op = "finalizeUpload" /\ r.pc = "done" /\ r.code = "INTEGRITY_ERROR"
    /\ Exists(a) /\ asset[a].status = "corrupt" /\ asset[a].sha256 = "null"
    /\ ticket[a] # NoTicket /\ ~ticket[a].used /\ storage[a] = NoObject

\* C12: a finalizeUpload by the owner with the current version passes the asset
\* checks holding the asset row as it is stored; when it then finds the ticket
\* marked used it returns that asset without error, whatever the claimed hash
\* and whether or not expiresAt has passed, as its next step: there is no
\* download, and asset, ticket, shares and the stored object stay as they are.
C12_UsedTicketRule ==
  /\ [](\A a \in AssetIds, h \in ClientHashes :
          (Exists(a) /\ asset[a].version < MaxVersion) =>
            FinalizeFirst(Owner(a), a, h, asset[a].version)
              = [FinalizeReq(Owner(a), a, h, asset[a].version)
                   EXCEPT !.pc = "f_ticket", !.asset = asset[a]])
  /\ [][\A r \in InFlight :
          LET a == r.assetId IN
          ( /\ r.pc = "f_ticket" /\ Moved(r) /\ ticket[a].user_id = r.caller
            /\ ticket[a].used )
          => /\ Becomes(r, Result(r, AssetView(r.asset)))
             /\ UNCHANGED <<db, storage>>]_vars

\* a finalizeUpload on a used ticket is over after the ticket has expired: it
\* returned the stored asset, which is corrupt, without error
C12_Witness ==
  \E r \in InFlight, a \in AssetIds :
    /\ r.op = "finalizeUpload" /\ r.pc = "done" /\ r.code = "OK"
    /\ r.ret.version = r.version /\ r.ret.status = "corrupt"
    /\ Exists(a) /\ r.ret = AssetView(asset[a])
    /\ ticket[a].used /\ ticket[a].expires_at < now

\* the MIME types the validation is said to admit: any image type, any video
\* type, and the PDF type itself
IsImageVideoOrPdf(mime) ==
  \/ StartsWith(mime, <<"image/">>)
  \/ StartsWith(mime, <<"video/">>)
  \/ mime = <<"application/pdf">>

\* C13: the first step of a createUploadUrl by an authenticated caller inserts
\* the caller's asset row (status uploading, version 1) when the MIME type is
\* an image type, a video type or the PDF type and 0 < size <= 30 MiB (unless
\* the insert itself fails); for every other (mime, size) it answers
\* BAD_REQUEST and no asset or ticket row is created.
C13_Validation ==
  [][\A caller \in Uploaders, mime \in Mimes, size \in Sizes :
       (\E ok \in BOOLEAN : CreateUploadUrl_InsertAsset(caller, mime, size, ok))
       => IF IsImageVideoOrPdf(mime) /\ 0 < size /\ size <= MAX_SIZE_BYTES
          THEN \/ asset' = [asset EXCEPT ![nextId] = NewAsset(nextId, caller)]
               \/ UNCHANGED db /\ \E r \in BagToSet(reqs') :
                                    NewResponse(r) /\ r.code = "BAD_REQUEST"
          ELSE /\ UNCHANGED db
               /\ \E r \in BagToSet(reqs') : NewResponse(r) /\ r.code = "BAD_REQUEST"]_vars

\* C14: a finalizeUpload, shareAsset, revokeShare, deleteAsset or
\* getDownloadUrl call on an existing asset by an authenticated caller who is
\* not its owner fails with FORBIDDEN at its first step, whatever version (and
\* hash, address, permission) it supplies, so that it gets no download URL;
\* and the step that answers FORBIDDEN leaves asset, ticket and share rows,
\* the stored objects and the signed upload URLs as they were.
C14_OwnerOnly ==
  /\ [](\A a \in AssetIds, caller \in Users :
          (Exists(a) /\ caller # Owner(a)) =>
            /\ \A v \in Versions :
                 /\ \A h \in ClientHashes :
                      FinalizeFirst(caller, a, h, v)
                        = Throw(FinalizeReq(caller, a, h, v), "FORBIDDEN")
                 /\ \A e \in Emails, d \in BOOLEAN :
                      ShareFirst(caller, a, e, d, v)
                        = Throw(ShareReq(caller, a, d, v), "FORBIDDEN")
                 /\ \A e \in Emails :
                      RevokeFirst(caller, a, e, v)
                        = Throw(RevokeReq(caller, a, v), "FORBIDDEN")
                 /\ DeleteFirst(caller, a, v)
                        = Throw(DeleteReq(caller, a, v), "FORBIDDEN")
            /\ GetDownloadUrlFirst(caller, a)
                 = Throw(DownloadReq(caller, a), "FORBIDDEN"))
  /\ [][\A r \in BagToSet(reqs') :
          (r.code = "FORBIDDEN" /\ Added(r)) => UNCHANGED <<db, storage, signed>>]_vars

\* a getDownloadUrl has been refused with FORBIDDEN while the asset is ready
\* and shared with download permission
C14_Witness ==
  \E r \in InFlight, a \in AssetIds :
    /\ r.op = "getDownloadUrl" /\ r.pc = "done" /\ r.code = "FORBIDDEN"
    /\ Exists(a) /\ asset[a].status = "ready" /\ asset[a].version = 3
    /\ \E s \in shares : s.asset_id = a /\ s.to_user # Owner(a) /\ s.can_download

\* this step is the first step of a call, which has added r to the bag
Arrived(r) == Added(r) /\ BagCardinality(reqs') > BagCardinality(reqs)

\* C15: a shareAsset by the owner with the current version whose address
\* resolves (in any casing) to the owner returns, at its first step, the asset
\* as it is stored, at the same version; the step that answers a shareAsset at
\* once creates or changes no asset_share row and leaves the asset row, the
\* ticket and the stored object unchanged.
C15_SelfShareNoOp ==
  /\ [](\A a \in AssetIds, e \in Emails, d \in BOOLEAN :
          (Exists(a) /\ findUserIdByEmail(e) = Owner(a)) =>
            ShareFirst(Owner(a), a, e, d, asset[a].version)
              = Result(ShareReq(Owner(a), a, d, asset[a].version), AssetView(asset[a])))
  /\ [][\A r \in BagToSet(reqs') :
          (r.op = "shareAsset" /\ r.pc = "done" /\ Arrived(r))
          => UNCHANGED <<db, storage>>]_vars

\* a self-share is over: the response is the stored asset at the version that
\* was sent, and there is no share row
C15_Witness ==
  \E r \in InFlight, a \in AssetIds :
    /\ r.op = "shareAsset" /\ r.pc = "done" /\ r.code = "OK"
    /\ r.version = 2 /\ r.ret.version = 2
    /\ Exists(a) /\ r.ret = AssetView(asset[a]) /\ asset[a].status = "ready"
    /\ shares = {}

\* C16: there is at most one asset_share row per (asset_id, to_user); a
\* shareAsset by the owner with the current version to another existing user
\* goes on to the upsert; its upsert leaves exactly one row for the pair, with
\* the requested can_download, and no other row changed; its bump then stores
\* the version the call was made with plus 1, leaves every other column of the
\* asset row as it is, and the call returns that asset.
C16_ShareUpsert ==
  /\ [](\A s1, s2 \in shares :
          (s1.asset_id = s2.asset_id /\ s1.to_user = s2.to_user) => s1 = s2)
  /\ [](\A a \in AssetIds, e \in Emails, d \in BOOLEAN :
          ( /\ Exists(a) /\ asset[a].version < MaxVersion
            /\ findUserIdByEmail(e) \notin {NoUser, Owner(a)} ) =>
            ShareFirst(Owner(a), a, e, d, asset[a].version)
              = [ShareReq(Owner(a), a, d, asset[a].version)
                   EXCEPT !.pc = "s_upsert", !.asset = Read(asset[a]),
                          !.toUserId = findUserIdByEmail(e)])
  /\ [][\A r \in InFlight :
          LET a == r.assetId IN
          /\ (r.pc = "s_upsert" /\ Moved(r))
             => /\ {s \in shares' : s.asset_id = a /\ s.to_user = r.toUserId}
                     = {[asset_id |-> a, to_user |-> r.toUserId,
                         can_download |-> r.canDownload]}
                /\ {s \in shares' : ~(s.asset_id = a /\ s.to_user = r.toUserId)}
                     = {s \in shares : ~(s.asset_id = a /\ s.to_user = r.toUserId)}
                /\ \E r2 \in BagToSet(reqs') : r2.pc = "s_bump" /\ Becomes(r, r2)
                /\ UNCHANGED <<asset, ticket>>
          /\ (r.pc = "s_bump" /\ Moved(r) /\ Exists(a))
             => /\ asset'[a] = [asset[a] EXCEPT !.version = r.version + 1]
                /\ Becomes(r, Result(r, AssetView(asset'[a])))
                /\ UNCHANGED <<shares, ticket>>]_vars

\* a shareAsset made with version 2 has returned the asset at version 3 and
\* the pair's one row carries can_download false
C16_Witness ==
  \E r \in InFlight, a \in AssetIds :
    /\ r.op = "shareAsset" /\ r.pc = "done" /\ r.code = "OK"
    /\ r.version = 2 /\ r.ret.version = 3
    /\ Exists(a) /\ asset[a].version = 3
    /\ shares = {[asset_id |-> a, to_user |-> "u2", can_download |-> FALSE]}

\* C17: a revokeShare by the owner with the current version is not refused:
\* with an address no user has it goes straight to the version bump, else to
\* the delete of the pair's share row, which succeeds whether or not there is
\* such a row and leaves none; the bump stores the version the call was made
\* with plus 1, leaves every other column of the asset row as it is, and the
\* call returns that asset.
C17_RevokeIdempotent ==
  /\ [](\A a \in AssetIds, e \in Emails :
          (Exists(a) /\ asset[a].version < MaxVersion) =>
            RevokeFirst(Owner(a), a, e, asset[a].version)
              = IF findUserIdByEmail(e) = NoUser
                THEN [RevokeReq(Owner(a), a, asset[a].version)
                        EXCEPT !.pc = "r_bump", !.asset = Read(asset[a])]
                ELSE [RevokeReq(Owner(a), a, asset[a].version)
                        EXCEPT !.pc = "r_delete", !.asset = Read(asset[a]),
                               !.toUserId = findUserIdByEmail(e)])
  /\ [][\A r \in InFlight :
          LET a == r.assetId IN
          /\ (r.pc = "r_delete" /\ Moved(r))
             => /\ ~ \E s \in shares' : s.asset_id = a /\ s.to_user = r.toUserId
                /\ {s \in shares' : ~(s.asset_id = a /\ s.to_user = r.toUserId)}
                     = {s \in shares : ~(s.asset_id = a /\ s.to_user = r.toUserId)}
                /\ \E r2 \in BagToSet(reqs') : r2.pc = "r_bump" /\ Becomes(r, r2)
                /\ UNCHANGED <<asset, ticket>>
          /\ (r.pc = "r_bump" /\ Moved(r) /\ Exists(a))
             => /\ asset'[a] = [asset[a] EXCEPT !.version = r.version + 1]
                /\ Becomes(r, Result(r, AssetView(asset'[a])))
                /\ UNCHANGED <<shares, ticket>>]_vars

\* a revokeShare on an asset that was never shared is over: it returned the
\* asset at version 2 and there is no share row
C17_Witness ==
  \E r \in InFlight, a \in AssetIds :
    /\ r.op = "revokeShare" /\ r.pc = "done" /\ r.code = "OK"
    /\ r.version = 1 /\ r.ret.version = 2
    /\ Exists(a) /\ r.ret = AssetView(asset[a]) /\ asset[a].status = "uploading"
    /\ shares = {}

\* C18: an asset row disappears only in a step of a deleteAsset by the asset's
\* owner whose version argument is the version stored at that moment; and the
\* delete of a deleteAsset that has passed the checks removes the row and the
\* call returns.
C18_Deletion ==
  [][/\ \A a \in AssetIds :
          (Exists(a) /\ asset'[a] = NoRow)
          => \E r \in InFlight :
               /\ r.op = "deleteAsset" /\ r.pc = "d_delete" /\ Moved(r)
               /\ r.assetId = a /\ r.caller = Owner(a)
               /\ r.version = asset[a].version
     /\ \A r \in InFlight :
          (r.pc = "d_delete" /\ Moved(r))
          => asset'[r.assetId] = NoRow /\ Becomes(r, Result(r, NoRow))]_vars

\* C19: a call of any of the seven resolvers without a caller identity fails
\* with UNAUTHENTICATED at its first step, whatever its arguments and whatever
\* is stored; and the step that answers UNAUTHENTICATED creates, changes and
\* deletes no asset, ticket or share row, stores no object and signs no URL.
C19_Unauthenticated ==
  /\ [](/\ \A mime \in Mimes, size \in Sizes :
             CreateChecks(NoUser, mime, size) = "UNAUTHENTICATED"
        /\ \A after \in 0..(MaxAssets + 1), first \in {0, 1, MAX_PAGE_SIZE + 1},
              q \in {<<>>, <<"c", "a">>} :
             MyAssetsFirst(NoUser, after, first, q).code = "UNAUTHENTICATED"
        /\ \A a \in AssetIds :
             /\ GetDownloadUrlFirst(NoUser, a).code = "UNAUTHENTICATED"
             /\ \A v \in Versions :
                  /\ \A h \in ClientHashes :
                       FinalizeFirst(NoUser, a, h, v).code = "UNAUTHENTICATED"
                  /\ \A e \in Emails, d \in BOOLEAN :
                       ShareFirst(NoUser, a, e, d, v).code = "UNAUTHENTICATED"
                  /\ \A e \in Emails :
                       RevokeFirst(NoUser, a, e, v).code = "UNAUTHENTICATED"
                  /\ DeleteFirst(NoUser, a, v).code = "UNAUTHENTICATED")
  /\ [][\A r \in BagToSet(reqs') :
          (r.code = "UNAUTHENTICATED" /\ Added(r))
          => UNCHANGED <<db, storage, signed, nextId>>]_vars

\* a myAssets without identity has been refused while an asset is stored
C19_Witness ==
  \E r \in InFlight, a \in AssetIds :
    /\ r.op = "myAssets" /\ r.pc = "done" /\ r.code = "UNAUTHENTICATED"
    /\ r.edges = <<>>
    /\ Exists(a) /\ asset[a].status = "ready" /\ ticket[a].used

\* C20: for every first = N > 0 a myAssets page has at most N edges, in
\* descending order of creation, and hasNextPage is true exactly when more
\* rows match the filter beyond the cursor than the page size, which is N
\* capped at 50.
C20_Pagination ==
  \A after \in Cursors, first \in Firsts, q \in Queries :
    first > 0 =>
      LET page == MyAssetsFirst("u1", after, first, q)
          size == IF first > MAX_PAGE_SIZE THEN MAX_PAGE_SIZE ELSE first IN
      /\ Len(page.edges) <= first
      /\ \A i \in 1..(Len(page.edges) - 1) :
           CreatedAt(page.edges[i]) > CreatedAt(page.edges[i + 1])
      /\ page.hasNextPage <=> Cardinality(Matching(after, q)) > size

\* C21: a createUploadUrl whose asset row is inserted and whose ticket insert
\* then fails, or whose ticket is inserted too and whose signed upload URL
\* cannot be issued, fails with BAD_REQUEST at that step, and the step takes
\* nothing back: the asset row, the ticket row and everything else stored stay
\* as they are, and the response does not carry the asset's id.
C21_NoRollback ==
  [][\A r \in InFlight :
       LET a == r.assetId IN
       /\ (r.pc = "c_ticket" /\ Moved(r) /\ ticket'[a] = NoTicket)
          => /\ Becomes(r, Throw(r, "BAD_REQUEST"))
             /\ Throw(r, "BAD_REQUEST").ret.id # a
             /\ UNCHANGED <<asset, ticket, shares, storage, signed>>
       /\ (r.pc = "c_sign" /\ Moved(r) /\ ~signed'[a])
          => /\ Becomes(r, Throw(r, "BAD_REQUEST"))
             /\ Throw(r, "BAD_REQUEST").ret.id # a
             /\ UNCHANGED <<asset, ticket, shares, storage, signed>>]_vars

\* a createUploadUrl has failed with BAD_REQUEST and its asset row is still
\* there, uploading at version 1, without a ticket, and no URL was signed
C21_Witness ==
  \E r \in InFlight, a \in AssetIds :
    /\ r.op = "createUploadUrl" /\ r.pc = "done" /\ r.code = "BAD_REQUEST"
    /\ Exists(a) /\ asset[a] = NewAsset(a, "u1")
    /\ ticket[a] = NoTicket /\ ~signed[a]

\* C22: once the upload ticket of an asset is marked used, no step changes the
\* status or the sha256 of the asset row (the row may still be deleted, and
\* its version may still change).
C22_FinalAfterUsed ==
  [][\A a \in AssetIds :
       (Exists(a) /\ ticket[a].used /\ asset'[a] # NoRow)
       => /\ asset'[a].status = asset[a].status
          /\ asset'[a].sha256 = asset[a].sha256]_vars

====
